---------------------------- MODULE Spec2Model ----------------------------
(***************************************************************************)
(* Model of pure_recipe.py: saving scraped recipes as Markdown files, the  *)
(* batch ("list") operation, the view operation with its save prompt and   *)
(* the interactive browser over the storage directory.                     *)
(*                                                                         *)
(* Strings are sequences of one-character strings, so that lower(),        *)
(* replace(), isspace(), strip() and lstrip("#") are computed character by *)
(* character as the Python code computes them.                             *)
(***************************************************************************)
EXTENDS Naturals, Sequences, FiniteSets

VARIABLES
    settings,      \* the dict returned by load_yaml(): "yield" and "time" flags
    fs,            \* the file system: path -> content (a sequence of lines)
    pc,            \* where the program is: "idle" (not started), "list_loop",
                   \* "view_prompt", "browse_menu", "followup", "done"
    op,            \* args.operations of the current (or last) run of main()
    saves,         \* number of calls of save_recipe_to_markdown so far
    errors,        \* error messages printed on the console in the current run
    last,          \* the most recent call of save_recipe_to_markdown
    scraped,       \* path -> scraper.title() of the last successful save to it
    savedTitles,   \* every scraper.title() that was saved successfully
    batch,         \* list: the lines of the batch file
    idx,           \* list: index of the next line of the batch file
    attempted,     \* list: the URLs handed to save_recipe_to_markdown, in order
    nwritten,      \* list: calls of save_recipe_to_markdown that wrote a file
    nfailed,       \* list: calls of save_recipe_to_markdown that raised
    fsBefore,      \* view: the file system when view_recipe was entered
    choice,        \* view: the answer to the "after_view" prompt
    depth,         \* browse: active frames of browse_recipes on the call stack
    title_to_file, \* browse: the dict built by the innermost frame
    prompted,      \* browse: inquirer prompts shown in the current run
    notFound       \* browse: "No markdown files found" was printed

vars == <<settings, fs, pc, op, saves, errors, last, scraped, savedTitles,
          batch, idx, attempted, nwritten, nfailed, fsBefore, choice,
          depth, title_to_file, prompted, notFound>>

histVars   == <<scraped, savedTitles>>
listVars   == <<batch, idx, attempted, nwritten, nfailed>>
viewVars   == <<fsBefore, choice>>
browseVars == <<depth, title_to_file, prompted, notFound>>

-----------------------------------------------------------------------------
(* Bounds *)

\* longest title scraped in a session of several saves
MaxLen == 1

\* longest title scraped in a session of one save
MaxLongLen == 3

\* calls of save_recipe_to_markdown in a session
MaxSaves == 2

\* nested calls of browse_recipes explored
MaxDepth == 2

-----------------------------------------------------------------------------
(* Characters and strings *)

TitleChars == {"A", "a", " ", "\t"}

TitlesUpTo(n) == UNION {[1..k -> TitleChars] : k \in 0..n}

Titles == TitlesUpTo(MaxLen)

LongTitles == TitlesUpTo(MaxLongLen)

\* str.isspace() of one character
IsSpace(c) == c \in {" ", "\t", "\n"}

\* str.lower() of one character
LowerChar(c) == IF c = "A" THEN "a" ELSE c

Lower(s) == [i \in 1..Len(s) |-> LowerChar(s[i])]

\* s.replace(" ", "-")
ReplaceSpaces(s) == [i \in 1..Len(s) |-> IF s[i] = " " THEN "-" ELSE s[i]]

RECURSIVE LStrip(_)
LStrip(s) == IF s = <<>> THEN s
             ELSE IF IsSpace(s[1]) THEN LStrip(Tail(s)) ELSE s

RECURSIVE RStrip(_)
RStrip(s) == IF s = <<>> THEN s
             ELSE IF IsSpace(s[Len(s)]) THEN RStrip(SubSeq(s, 1, Len(s) - 1))
             ELSE s

\* s.strip()
Strip(s) == RStrip(LStrip(s))

\* s.rstrip("\n")
RECURSIVE RStripNewline(_)
RStripNewline(s) ==
    IF s = <<>> THEN s
    ELSE IF s[Len(s)] = "\n" THEN RStripNewline(SubSeq(s, 1, Len(s) - 1))
    ELSE s

\* s.lstrip("#")
RECURSIVE LStripHash(_)
LStripHash(s) == IF s = <<>> THEN s
                 ELSE IF s[1] = "#" THEN LStripHash(Tail(s)) ELSE s


-----------------------------------------------------------------------------
(* The file system and the scraper *)

\* settings["directory"], an existing directory (load_yaml creates it)
Directory == "~/Documents/pure_recipes"

MdSuffix == <<".", "m", "d">>

\* directory + "/" + name, and os.path.join(directory, name)
PathOf(name) == <<Directory, "/">> \o name

\* os.listdir(directory)
ListDir(fsys) == {SubSeq(p, 3, Len(p)) : p \in {q \in DOMAIN fsys : q[1] = Directory}}

EndsWithMd_any_file(filename) == TRUE

\* filename.endswith(".md")
EndsWithMd(filename) ==
    /\ Len(filename) >= Len(MdSuffix)
    /\ SubSeq(filename, Len(filename) - Len(MdSuffix) + 1, Len(filename)) = MdSuffix

\* open(path, "w+") ... close: the file is created or truncated, then written
WriteFile(fsys, path, content) ==
    [p \in DOMAIN fsys \cup {path} |-> IF p = path THEN content ELSE fsys[p]]

NoFile == <<>>

NoTitle == <<"<unbound>">>

ScrapeFail == [ok |-> FALSE]

\* what the scraper object answers for a page whose title is t
Recipe(t) ==
    [ok |-> TRUE, title |-> t, yields |-> "4 servings", total_time |-> "20",
     ingredients |-> <<"water">>, instructions |-> <<"boil">>]

\* scrape_me(url): raises, or returns a scraper for some recipe; nothing can
\* be fetched from the empty URL
ScrapeOutcomes(url, titles) ==
    IF url = <<>> THEN {ScrapeFail}
    ELSE {ScrapeFail} \cup {Recipe(t) : t \in titles}

-----------------------------------------------------------------------------
(* format_file_name and save_recipe_to_markdown *)

format_file_name_keeps_case(recipe_title) ==
    [i \in 1..Len(recipe_title) |->
        IF IsSpace(recipe_title[i]) THEN "-" ELSE recipe_title[i]]

format_file_name_keeps_tabs(recipe_title) ==
    Lower(recipe_title)

format_file_name(recipe_title) ==
    LET s == Lower(recipe_title)
    IN  [i \in 1..Len(s) |-> IF IsSpace(s[i]) THEN "-" ELSE s[i]]

\* f"{index + 1}" for the instruction at position i (counted from one)
Numeral(i) == IF i = 1 THEN "1" ELSE IF i = 2 THEN "2" ELSE "n"

\* the lines printed into the file, in order
Document(title, scraper, yaml_settings) ==
    <<  <<"#", " ">> \o title  >>
    \o (IF yaml_settings["yield"]
        THEN << <<"**Serves:** ", scraper.yields>> >> ELSE <<>>)
    \o (IF yaml_settings["time"]
        THEN << <<"**Total Time:** ", scraper.total_time, " mins">> >> ELSE <<>>)
    \o << <<>>, <<"## Ingredients">> >>
    \o [i \in 1..Len(scraper.ingredients) |-> <<"- ", scraper.ingredients[i]>>]
    \o << <<>>, <<"## Instructions">> >>
    \o [i \in 1..Len(scraper.instructions) |->
            <<Numeral(i), ". ", scraper.instructions[i]>>]

\* A result of save_recipe_to_markdown: whether it raised, how many error
\* messages it printed, the file system it leaves, the path it returns, and
\* the scraper's title it worked from.
AfterScrapeFailure_writes_file(fsys, yaml_settings) ==
    [raised |-> FALSE, prints |-> 1, scrape |-> "failed", title |-> NoTitle,
     file |-> PathOf(MdSuffix),
     fs |-> WriteFile(fsys, PathOf(MdSuffix), << <<"#", " ">> >>)]

\* scrape_me raised: the handler prints "Could not scrape recipe" and falls
\* through; scraper is unbound, so scraper.title() raises UnboundLocalError
\* before any file is opened.
AfterScrapeFailure(fsys, yaml_settings) ==
    [raised |-> TRUE, prints |-> 1, scrape |-> "failed", title |-> NoTitle,
     file |-> NoFile, fs |-> fsys]

\* scrape_me returned: derive the path from the title and write the document
WriteRecipe(scraper, fsys, yaml_settings) ==
    LET title       == ReplaceSpaces(scraper.title)
        recipe_file == PathOf(format_file_name(title) \o MdSuffix)
    IN  [raised |-> FALSE, prints |-> 0, scrape |-> "ok", title |-> scraper.title,
         file |-> recipe_file,
         fs |-> WriteFile(fsys, recipe_file, Document(title, scraper, yaml_settings))]

save_recipe_to_markdown(outcome, fsys, yaml_settings) ==
    IF outcome = ScrapeFail
    THEN AfterScrapeFailure(fsys, yaml_settings)
    ELSE WriteRecipe(outcome, fsys, yaml_settings)

\* the history of successful saves after a call with result r
NextScraped(r) ==
    IF r.raised \/ r.scrape # "ok" THEN scraped
    ELSE [p \in DOMAIN scraped \cup {r.file} |->
             IF p = r.file THEN r.title ELSE scraped[p]]

NextSavedTitles(r) ==
    IF r.raised \/ r.scrape # "ok" THEN savedTitles ELSE savedTitles \cup {r.title}

LastOf(r) == [raised |-> r.raised, prints |-> r.prints, scrape |-> r.scrape,
              title |-> r.title, file |-> r.file]

-----------------------------------------------------------------------------
(* browse_recipes: the scan of the storage directory *)

\* f.readline().lstrip("#").strip()
ExtractTitle(content) ==
    IF content = <<>> THEN <<>> ELSE Strip(LStripHash(content[1]))

\* the files the scan opens
MarkdownNames(fsys) == {n \in ListDir(fsys) : EndsWithMd(n)}

\* The dicts the loop over os.listdir can build: one key per extracted title;
\* when several files carry one title the file enumerated last wins, and the
\* order of os.listdir is arbitrary.
ScanResults(fsys) ==
    LET names  == MarkdownNames(fsys)
        found  == {ExtractTitle(fsys[PathOf(n)]) : n \in names}
        paths  == {PathOf(n) : n \in names}
    IN  {m \in [found -> paths] : \A t \in found : ExtractTitle(fsys[m[t]]) = t}

-----------------------------------------------------------------------------
(* Initial state: a fresh run of the program over a storage directory that  *)
(* is empty or holds a file that is not a recipe.                           *)

EmptyFS == [p \in {} |-> <<>>]

NotesFile == PathOf(<<"n", "o", "t", "e", "s", ".", "t", "x", "t">>)

InitialFS == {EmptyFS, [p \in {NotesFile} |-> << <<"m", "i", "l", "k">> >>]}

NoSave == [raised |-> FALSE, prints |-> 0, scrape |-> "none",
           title |-> NoTitle, file |-> NoFile]

Init ==
    /\ settings \in [{"yield", "time"} -> BOOLEAN]
    /\ fs \in InitialFS
    /\ pc = "idle"
    /\ op = "none"
    /\ saves = 0
    /\ errors = 0
    /\ last = NoSave
    /\ scraped = EmptyFS
    /\ savedTitles = {}
    /\ batch = <<>>
    /\ idx = 1
    /\ attempted = <<>>
    /\ nwritten = 0
    /\ nfailed = 0
    /\ fsBefore = EmptyFS
    /\ choice = "none"
    /\ depth = 0
    /\ title_to_file = EmptyFS
    /\ prompted = 0
    /\ notFound = FALSE

\* the URL given on the command line
Url == <<"u">>

\* A call of save_recipe_to_markdown with result r: the variables it sets
Saved(r) ==
    /\ fs' = r.fs
    /\ last' = LastOf(r)
    /\ saves' = saves + 1
    /\ scraped' = NextScraped(r)
    /\ savedTitles' = NextSavedTitles(r)

-----------------------------------------------------------------------------
(* main: operation "save" *)

\* main calls save_recipe_to_markdown; an exception is printed by main
Save(titles) ==
    /\ \E o \in ScrapeOutcomes(Url, titles) :
          LET r == save_recipe_to_markdown(o, fs, settings)
          IN  /\ Saved(r)
              /\ errors' = r.prints + (IF r.raised THEN 1 ELSE 0)
    /\ op' = "save"
    /\ pc' = "done"
    /\ UNCHANGED <<settings, listVars, viewVars, browseVars>>

SaveOp ==
    /\ pc = "idle"
    /\ saves < MaxSaves
    /\ Save(Titles)

\* the only save of a session, of a recipe with a longer title
SaveLong ==
    /\ pc = "idle"
    /\ saves < 1
    /\ Save(LongTitles)

-----------------------------------------------------------------------------
(* main: operation "view" *)

\* view_recipe up to the prompt: save, read the file back, print it, prompt.
\* An exception of the save is caught by view_recipe's last handler.
ViewStart ==
    /\ pc = "idle"
    /\ saves + 2 <= MaxSaves
    /\ \E o \in ScrapeOutcomes(Url, Titles) :
          LET r == save_recipe_to_markdown(o, fs, settings)
          IN  /\ Saved(r)
              /\ errors' = r.prints + (IF r.raised THEN 1 ELSE 0)
              /\ pc' = IF r.raised THEN "done" ELSE "view_prompt"
    /\ op' = "view"
    /\ fsBefore' = fs
    /\ choice' = "none"
    /\ UNCHANGED <<settings, listVars, browseVars>>

\* the answer "Save this recipe": save again; an exception is caught and printed
ViewSave ==
    /\ pc = "view_prompt"
    /\ \E o \in ScrapeOutcomes(Url, Titles) :
          LET r == save_recipe_to_markdown(o, fs, settings)
          IN  /\ Saved(r)
              /\ errors' = errors + r.prints + (IF r.raised THEN 1 ELSE 0)
    /\ choice' = "Save this recipe"
    /\ pc' = "done"
    /\ UNCHANGED <<settings, op, fsBefore, listVars, browseVars>>

\* the answer "Quit"
ViewQuit ==
    /\ pc = "view_prompt"
    /\ choice' = "Quit"
    /\ pc' = "done"
    /\ UNCHANGED <<settings, fs, op, saves, errors, last, histVars, fsBefore,
                   listVars, browseVars>>

-----------------------------------------------------------------------------
(* main: operation "list" *)

\* the lines a batch file is made of, each with its newline: a line that is
\* blank and a line that holds a URL, both with surrounding whitespace
RawLines == {<<" ", "\n">>, <<" ", "u", " ", "\n">>}

BatchFiles(n) == UNION {[1..k -> RawLines] : k \in 0..n}

\* save_list_of_recipes up to the loop: chdir to the directory, open the file
ListStart ==
    /\ pc = "idle"
    /\ saves < MaxSaves
    /\ batch' \in BatchFiles(MaxSaves - saves)
    /\ idx' = 1
    /\ attempted' = <<>>
    /\ nwritten' = 0
    /\ nfailed' = 0
    /\ errors' = 0
    /\ op' = "list"
    /\ pc' = "list_loop"
    /\ UNCHANGED <<settings, fs, saves, last, histVars, viewVars, browseVars>>

\* the batch file does not exist: "URL file not found" is printed, the
\* exception is raised again and main prints it
ListFileNotFound ==
    /\ pc = "idle"
    /\ batch' = <<>>
    /\ idx' = 1
    /\ attempted' = <<>>
    /\ nwritten' = 0
    /\ nfailed' = 0
    /\ errors' = 2
    /\ op' = "list"
    /\ pc' = "done"
    /\ UNCHANGED <<settings, fs, saves, last, histVars, viewVars, browseVars>>

\* one iteration of "for line in f": strip the line, save, report a failure
ListLine ==
    /\ pc = "list_loop"
    /\ idx <= Len(batch)
    /\ LET single_url == RStripNewline(Strip(batch[idx]))
       IN  /\ \E o \in ScrapeOutcomes(single_url, Titles) :
                 LET r == save_recipe_to_markdown(o, fs, settings)
                 IN  /\ Saved(r)
                     /\ errors' = errors + r.prints + (IF r.raised THEN 1 ELSE 0)
                     /\ nwritten' = nwritten + (IF r.raised THEN 0 ELSE 1)
                     /\ nfailed' = nfailed + (IF r.raised THEN 1 ELSE 0)
           /\ attempted' = Append(attempted, single_url)
    /\ idx' = idx + 1
    /\ UNCHANGED <<settings, pc, op, batch, viewVars, browseVars>>

\* the file is exhausted: save_list_of_recipes returns
ListEnd ==
    /\ pc = "list_loop"
    /\ idx > Len(batch)
    /\ pc' = "done"
    /\ UNCHANGED <<settings, fs, op, saves, errors, last, histVars, listVars,
                   viewVars, browseVars>>

-----------------------------------------------------------------------------
(* main: operation "browse" *)

\* browse_recipes from its entry to its first prompt or return, in a frame at
\* depth d: scan the directory; without titles print "No markdown files
\* found" and return (the callers' frames return after it), else show the menu
Browse(d) ==
    \E m \in ScanResults(fs) :
        /\ title_to_file' = m
        /\ IF DOMAIN m = {}
           THEN /\ notFound' = TRUE
                /\ depth' = 0
                /\ pc' = "done"
                /\ UNCHANGED prompted
           ELSE /\ depth' = d
                /\ pc' = "browse_menu"
                /\ prompted' = prompted + 1
                /\ UNCHANGED notFound

BrowseStart ==
    /\ pc = "idle"
    /\ Browse(1)
    /\ op' = "browse"
    /\ errors' = 0
    /\ UNCHANGED <<settings, fs, saves, last, histVars, listVars, viewVars>>

\* a title is chosen: read its file, print it, show the follow-up prompt
BrowseSelect ==
    /\ pc = "browse_menu"
    /\ \E selected_title \in DOMAIN title_to_file :
          title_to_file[selected_title] \in DOMAIN fs
    /\ prompted' = prompted + 1
    /\ pc' = "followup"
    /\ UNCHANGED <<settings, fs, op, saves, errors, last, histVars, listVars,
                   viewVars, depth, title_to_file, notFound>>

\* "Quit" in the menu: every frame returns
BrowseQuit ==
    /\ pc = "browse_menu"
    /\ depth' = 0
    /\ pc' = "done"
    /\ UNCHANGED <<settings, fs, op, saves, errors, last, histVars, listVars,
                   viewVars, title_to_file, prompted, notFound>>

\* "Quit" in the follow-up prompt: every frame returns
FollowUpQuit ==
    /\ pc = "followup"
    /\ depth' = 0
    /\ pc' = "done"
    /\ UNCHANGED <<settings, fs, op, saves, errors, last, histVars, listVars,
                   viewVars, title_to_file, prompted, notFound>>

\* "Back to menu": browse_recipes calls itself
FollowUpBack ==
    /\ pc = "followup"
    /\ depth < MaxDepth
    /\ Browse(depth + 1)
    /\ UNCHANGED <<settings, fs, op, saves, errors, last, histVars, listVars,
                   viewVars>>

-----------------------------------------------------------------------------
(* main returns and the process ends: nothing but the storage directory    *)
(* (and the record of what was saved to it) outlives the run.              *)

Exit ==
    /\ pc = "done"
    /\ pc' = "idle"
    /\ op' = "none"
    /\ errors' = 0
    /\ last' = NoSave
    /\ batch' = <<>>
    /\ idx' = 1
    /\ attempted' = <<>>
    /\ nwritten' = 0
    /\ nfailed' = 0
    /\ fsBefore' = EmptyFS
    /\ choice' = "none"
    /\ depth' = 0
    /\ title_to_file' = EmptyFS
    /\ prompted' = 0
    /\ notFound' = FALSE
    /\ UNCHANGED <<settings, fs, saves, histVars>>

-----------------------------------------------------------------------------

Next ==
    \/ SaveOp
    \/ ViewStart
    \/ ViewSave
    \/ ViewQuit
    \/ ListStart
    \/ ListFileNotFound
    \/ ListLine
    \/ ListEnd
    \/ BrowseStart
    \/ BrowseSelect
    \/ BrowseQuit
    \/ FollowUpQuit
    \/ FollowUpBack
    \/ Exit

Spec == Init /\ [][Next]_vars

\* sessions of one save, of any title up to MaxLongLen, and any browsing
NextTitle ==
    \/ SaveLong
    \/ BrowseStart
    \/ BrowseSelect
    \/ BrowseQuit
    \/ FollowUpQuit
    \/ FollowUpBack
    \/ Exit

SpecTitle == Init /\ [][NextTitle]_vars


-----------------------------------------------------------------------------
(* Properties *)

\* the title line and the file name a recipe titled t should get
TitleLine(t) == <<"#", " ">> \o t

DerivedName(t) ==
    [i \in 1..Len(t) |->
        IF t[i] \in {" ", "\t", "\n"} THEN "-"
        ELSE IF t[i] = "A" THEN "a" ELSE t[i]]

DerivedPath(t) == <<Directory, "/">> \o DerivedName(t) \o <<".", "m", "d">>

IsRecipePath(p) ==
    /\ Len(p) >= 3
    /\ SubSeq(p, Len(p) - 2, Len(p)) = <<".", "m", "d">>

\* the files the storage directory has gained since the initial state
Gained == DOMAIN fs \ {NotesFile}

\* a title as the scraper hands it out for a real page: not empty and
\* without whitespace around it
Trimmed(t) == t # <<>> /\ Strip(t) = t

\* C1: the first line of every file written by save_recipe_to_markdown is
\* "# " followed by the title the scraper returned, unchanged, spaces
\* included (stated for the titles without surrounding whitespace).
FirstLineIsScrapedTitle ==
    \A p \in DOMAIN scraped :
        Trimmed(scraped[p]) => fs[p][1] = TitleLine(scraped[p])

\* C2: when browse_recipes shows its menu, every file written by
\* save_recipe_to_markdown is listed under the title the scraper returned
\* (stated for the titles that trimming leaves as they are).
BrowseTitleRoundTrip ==
    pc = "browse_menu" =>
        \A p \in DOMAIN scraped :
            Trimmed(scraped[p]) =>
                /\ scraped[p] \in DOMAIN title_to_file
                /\ title_to_file[scraped[p]] = p

\* C3 as stated: the directory has gained exactly one file per distinct title
\* saved (two distinct titles never share a file).
OneFilePerDistinctTitle ==
    Cardinality(Gained) = Cardinality(savedTitles)

\* C3 as amended: the successful saves have written exactly one file per
\* distinct derived file name of the titles saved, however often each was
\* saved: the files written, and the files the directory has gained, are the
\* derived paths of the saved titles; titles whose derived names coincide
\* share one file.
OneFilePerDerivedName ==
    /\ DOMAIN scraped = {DerivedPath(t) : t \in savedTitles}
    /\ Gained = DOMAIN scraped
    /\ Cardinality(Gained) = Cardinality({DerivedName(t) : t \in savedTitles})

\* two distinct titles were saved and the directory gained a single file
TwoTitlesShareAFile ==
    /\ Cardinality(savedTitles) = 2
    /\ Cardinality(Gained) = 1

\* C4: when the list operation has gone through a batch file of n URL lines
\* of which k failed to save, every line was attempted in file order, n-k
\* files were written and exactly k errors were reported.
BatchReportsOncePerFailure ==
    (/\ op = "list"
     /\ pc = "done"
     /\ Len(batch) >= 1
     /\ \A i \in 1..Len(batch) : Strip(batch[i]) # <<>>)
    => /\ attempted = [i \in 1..Len(batch) |-> Strip(batch[i])]
       /\ nwritten = Len(batch) - nfailed
       /\ errors = nfailed

\* C5: the list operation attempts a save only for lines that are not empty
\* after trimming, and reports no error for a blank line.
BlankLinesIgnored ==
    op = "list" =>
        /\ \A i \in 1..Len(attempted) : attempted[i] # <<>>
        /\ Len(attempted) = Cardinality({i \in 1..(idx - 1) : Strip(batch[i]) # <<>>})

\* C6: a call of save_recipe_to_markdown whose scrape step fails reports the
\* error and aborts: the file system is left exactly as it was, no path is
\* returned and no title of a scraper is used.
ScrapeFailureAbortsSave ==
    [][(saves' = saves + 1 /\ last'.scrape = "failed")
        => /\ fs' = fs
           /\ last'.prints >= 1
           /\ errors' >= 1
           /\ last'.raised
           /\ last'.file = NoFile
           /\ last'.title = NoTitle]_vars

\* a scrape failed while files saved earlier were in the directory
ScrapeFailedAfterSave ==
    /\ last.scrape = "failed"
    /\ scraped # EmptyFS
    /\ \A p \in DOMAIN scraped : p \in DOMAIN fs

\* C7: the path a recipe is saved to is the storage directory, "/", the title
\* with every character lowercased and every whitespace character replaced
\* by "-" and nothing else changed, and ".md"; the file is there afterwards.
SavedPathDerivedFromTitle ==
    last.scrape = "ok" =>
        /\ last.file = DerivedPath(last.title)
        /\ last.file \in DOMAIN fs

\* a title with an upper-case letter, a space and a tab was saved
MixedTitleSaved ==
    /\ last.scrape = "ok"
    /\ \E i, j, k \in 1..Len(last.title) :
          /\ last.title[i] = "A"
          /\ last.title[j] = " "
          /\ last.title[k] = "\t"

\* C8: browsing a directory that holds no file whose name ends in ".md"
\* prints that no recipes were found and returns: no prompt is shown and
\* nothing is raised; a prompt is shown only when such a file exists.
BrowseWithoutRecipes ==
    /\ pc \in {"browse_menu", "followup"} => \E p \in DOMAIN fs : IsRecipePath(p)
    /\ (op = "browse" /\ pc = "done" /\ ~ \E p \in DOMAIN fs : IsRecipePath(p))
       => (notFound /\ prompted = 0 /\ errors = 0)

\* a directory holding only a file that is not a recipe was browsed
BrowsedDirectoryWithoutRecipes ==
    /\ op = "browse"
    /\ pc = "done"
    /\ notFound
    /\ NotesFile \in DOMAIN fs
    /\ ~ \E p \in DOMAIN fs : IsRecipePath(p)

\* C9: the browse flow is an iterative loop: however often "Back to menu" is
\* chosen, a single frame of browse_recipes is on the call stack.
BrowseStackBounded ==
    depth <= 1

\* C10: when the user answers "Quit" to the prompt of the view operation, the
\* files of the storage directory and their contents are as they were when
\* the view started.
ViewQuitLeavesDirectory ==
    (op = "view" /\ pc = "done" /\ choice = "Quit") => fs = fsBefore

=============================================================================
